---- MODULE Spec2Model ----
(***************************************************************************)
(* Model of rust-rag-search (src/rust-rag/src/main.rs): a one-shot CLI     *)
(* that runs one FTS5 query, cuts a snippet out of every returned body and *)
(* prints the result list in one of three formats.                         *)
(*                                                                         *)
(* A Rust String is modelled as what it is: a sequence of UTF-8 bytes.     *)
(* A byte is written as its two hex digits ("61" is 'a'); lengths and      *)
(* offsets are byte counts, exactly as str::len, str::find and the slice   *)
(* operator use them.  usize arithmetic is modelled on the naturals: the   *)
(* model covers max_length < 2^63, where 2 * max_length cannot overflow.   *)
(***************************************************************************)
EXTENDS Integers, Sequences, FiniteSets, TLC

VARIABLES content, query, max_length, snippet, pc,
          store, args, stmt, rows, results, stdout, exit_code

vars == <<content, query, max_length, snippet, pc,
          store, args, stmt, rows, results, stdout, exit_code>>

----------------------------------------------------------------------------
(* Bounds of the model.                                                    *)

MaxContentLen == 3      \* characters in a body handed to extract_snippet
MaxQueryLen == 2        \* characters in a query handed to extract_snippet
MaxBudget == 9          \* largest max_length handed to extract_snippet
MaxDocs == 2            \* rows in the index store
MaxLimit == 2           \* largest --limit

----------------------------------------------------------------------------
(* Strings: UTF-8 byte sequences.                                          *)

\* The characters the inputs are built from, as their UTF-8 encodings:
\* 'a', 'A', ' ', U+212A KELVIN SIGN (3 bytes, lowercases to the 1-byte 'k')
\* and U+0130 LATIN CAPITAL I WITH DOT ABOVE (2 bytes, lowercases to the
\* 3 bytes of 'i' followed by U+0307).
Chars == { <<"61">>, <<"41">>, <<"20">>, <<"E2", "84", "AA">>, <<"C4", "B0">> }

\* UTF-8 continuation bytes (10xxxxxx) among the bytes in use.
Continuation == {"84", "AA", "B0", "87"}

\* Bytes of a character, from its lead byte.
CharWidth(lead) ==
  CASE lead = "E2" -> 3
    [] lead \in {"C4", "CC"} -> 2
    [] OTHER -> 1

\* char::to_lowercase, as UTF-8.
LowerChar(c) ==
  CASE c = <<"41">> -> <<"61">>
    [] c = <<"E2", "84", "AA">> -> <<"6B">>
    [] c = <<"C4", "B0">> -> <<"69", "CC", "87">>
    [] OTHER -> c

\* char::is_whitespace for the characters in use: ' ' and '\n'.
IsWhitespace(b) == b \in {"20", "0A"}

Min(a, b) == IF a < b THEN a ELSE b

Tail_n(s, n) == SubSeq(s, n + 1, Len(s))

RECURSIVE Concat(_)
Concat(ss) == IF ss = <<>> THEN <<>> ELSE Head(ss) \o Concat(Tail(ss))

\* All strings of at most n characters of Chars.
RECURSIVE StringsUpTo(_)
StringsUpTo(n) ==
  IF n = 0 THEN { <<>> }
  ELSE LET shorter == StringsUpTo(n - 1)
       IN shorter \cup { s \o c : s \in shorter, c \in Chars }

\* str::to_lowercase: every character replaced by its lowercase expansion.
RECURSIVE to_lowercase(_)
to_lowercase(s) ==
  IF s = <<>> THEN <<>>
  ELSE LET n == CharWidth(s[1])
       IN LowerChar(SubSeq(s, 1, n)) \o to_lowercase(Tail_n(s, n))

NotFound == -1

\* str::find: 0-based byte offset of the first occurrence, or None.
find(hay, needle) ==
  LET hits == { i \in 0..(Len(hay) - Len(needle)) :
                  SubSeq(hay, i + 1, i + Len(needle)) = needle }
  IN IF hits = {} THEN NotFound
     ELSE CHOOSE i \in hits : \A j \in hits : i <= j

\* str::is_char_boundary.
is_char_boundary(s, i) ==
  \/ i = 0
  \/ i = Len(s)
  \/ i < Len(s) /\ s[i + 1] \notin Continuation

\* The slice s[start..end] is defined iff this holds; otherwise it panics.
SliceOk(s, start, end) ==
  /\ start <= end
  /\ end <= Len(s)
  /\ is_char_boundary(s, start)
  /\ is_char_boundary(s, end)

\* s[start..end], 0-based, end exclusive.
Slice(s, start, end) == SubSeq(s, start + 1, end)

RECURSIVE trim_start(_)
trim_start(s) ==
  IF s # <<>> /\ IsWhitespace(Head(s)) THEN trim_start(Tail(s)) ELSE s

RECURSIVE trim_end(_)
trim_end(s) ==
  IF s # <<>> /\ IsWhitespace(s[Len(s)])
  THEN trim_end(SubSeq(s, 1, Len(s) - 1)) ELSE s

\* str::trim.
trim(s) == trim_end(trim_start(s))

saturating_sub(a, b) == IF a > b THEN a - b ELSE 0

Ellipsis == <<"2E", "2E", "2E">>

----------------------------------------------------------------------------
(* Searcher::extract_snippet.  The result is either a returned String or   *)
(* a panic of the slice operator.                                          *)

Returned(s) == [panicked |-> FALSE, value |-> s]
Panicked == [panicked |-> TRUE, value |-> <<>>]

WindowStart(pos, max) == saturating_sub(pos, max \div 3)

\* The window runs to the end of the body.
WindowEnd_Unclamped(pos, qlen, max, clen) == clen

WindowEnd(pos, qlen, max, clen) == Min(pos + qlen + ((2 * max) \div 3), clen)

\* Off by one: a window that starts at offset 0 gets a marker too.
LeadingMarker_Always(start) == start >= 0

LeadingMarker(start) == start > 0

TrailingMarker(end, clen) == end < clen

FoundBranch(c, q, max, pos) ==
  LET start == WindowStart(pos, max)
      end == WindowEnd(pos, Len(q), max, Len(c))
  IN IF ~SliceOk(c, start, end) THEN Panicked
     ELSE Returned((IF LeadingMarker(start) THEN Ellipsis ELSE <<>>)
                   \o trim(Slice(c, start, end))
                   \o (IF TrailingMarker(end, Len(c)) THEN Ellipsis ELSE <<>>))

\* Off by one: a body of exactly max bytes counts as truncated.
NotFoundTruncated_OffByOne(clen, max) == clen >= max

NotFoundTruncated(clen, max) == clen > max

NotFoundBranch(c, max) ==
  LET end == Min(max, Len(c))
  IN IF ~SliceOk(c, 0, end) THEN Panicked
     ELSE Returned(trim(Slice(c, 0, end))
                   \o (IF NotFoundTruncated(Len(c), max) THEN Ellipsis ELSE <<>>))

extract_snippet(c, q, max) ==
  LET content_lower == to_lowercase(c)
      query_lower == to_lowercase(q)
      pos == find(content_lower, query_lower)
  IN IF pos # NotFound THEN FoundBranch(c, q, max, pos)
     ELSE NotFoundBranch(c, max)

----------------------------------------------------------------------------
(* The invocation (main) is idle in the specification of extract_snippet   *)
(* and extract_snippet's call variables are idle in the specification of   *)
(* the invocation.                                                         *)

NoCall == [panicked |-> FALSE, value |-> <<>>]

NoStore == [failure |-> "none", docs |-> <<>>]

NoArgs == [query |-> <<>>, limit |-> 0, max_snippet |-> 0,
           format |-> "Jsonl", category |-> <<>>]

MainIdle ==
  /\ store = NoStore
  /\ args = NoArgs
  /\ stmt = "none"
  /\ rows = <<>>
  /\ results = <<>>
  /\ stdout = <<>>
  /\ exit_code = -1

----------------------------------------------------------------------------
(* Specification of extract_snippet as a function of its arguments.        *)

InitSnippet ==
  /\ content \in StringsUpTo(MaxContentLen)
  /\ query \in StringsUpTo(MaxQueryLen)
  /\ max_length \in 0..MaxBudget
  /\ snippet = NoCall
  /\ pc = "call"
  /\ MainIdle

CallExtractSnippet ==
  /\ pc = "call"
  /\ snippet' = extract_snippet(content, query, max_length)
  /\ pc' = "returned"
  /\ UNCHANGED <<content, query, max_length, store, args, stmt, rows,
                 results, stdout, exit_code>>

NextSnippet == CallExtractSnippet

SnippetSpec == InitSnippet /\ [][NextSnippet]_vars

----------------------------------------------------------------------------
(* Vocabulary of the properties of extract_snippet.                        *)

SnippetReturned == pc = "returned" /\ ~snippet.panicked

IsPrefix(p, s) == Len(p) <= Len(s) /\ SubSeq(s, 1, Len(p)) = p

IsSubstring(sub, s) ==
  \E i \in 0..(Len(s) - Len(sub)) : SubSeq(s, i + 1, i + Len(sub)) = sub

\* body contains term case-insensitively.
ContainsCI(body, term) == IsSubstring(to_lowercase(term), to_lowercase(body))

\* Offsets of body at which term occurs case-insensitively.
Occurrences(body, term) ==
  { p \in 0..Len(body) :
      /\ is_char_boundary(body, p)
      /\ IsPrefix(to_lowercase(term), to_lowercase(Tail_n(body, p))) }

\* Offset in body of the first case-insensitive occurrence of term.
FirstOccurrence(body, term) ==
  CHOOSE p \in Occurrences(body, term) : \A r \in Occurrences(body, term) : p <= r

\* body[pos .. pos+len(term)) for the first occurrence.
MatchedSubstring(body, term) ==
  LET pos == FirstOccurrence(body, term)
  IN SubSeq(body, pos + 1, Min(pos + Len(term), Len(body)))

\* s is lead marker, marker-free text, trail marker, with the markers present
\* exactly as lead and trail say.
MarkersAre(s, lead, trail) ==
  LET n == Len(s)
      l == IF lead THEN 3 ELSE 0
      t == IF trail THEN 3 ELSE 0
  IN /\ n >= l + t
     /\ \A i \in 1..n : (s[i] = "2E") <=> (i <= l \/ i > n - t)

NoMarker(s) == \A i \in 1..Len(s) : s[i] # "2E"

----------------------------------------------------------------------------
(* C1: extract_snippet is total: for every content, query and max_length   *)
(* it returns a snippet and never aborts, multi-byte text included.        *)
C1_Total == pc = "returned" => ~snippet.panicked

(* C2: the returned snippet is at most max_length + 6 bytes long, whatever *)
(* the query and the body are, in both branches.                           *)
C2_WithinBudget ==
  SnippetReturned => Len(snippet.value) <= max_length + 6

(* C2, amended: the returned snippet is at most                            *)
(* max_length + len(query) + 6 bytes long, in both branches.               *)
C2_WithinBudgetPlusQuery ==
  SnippetReturned => Len(snippet.value) <= max_length + Len(query) + 6

\* A found match with both markers whose snippet is longer than
\* max_length + 6 and exactly as long as the amended bound.
C2_Witness ==
  /\ SnippetReturned
  /\ ContainsCI(content, query)
  /\ Len(snippet.value) > max_length + 6
  /\ Len(snippet.value) = max_length + Len(query) + 6

(* C3: when body contains term case-insensitively, first at offset pos,    *)
(* the returned snippet contains body[pos .. pos+len(term)) unchanged.     *)
C3_ContainsMatch ==
  (SnippetReturned /\ content # <<>> /\ ContainsCI(content, query))
    => IsSubstring(MatchedSubstring(content, query), snippet.value)

(* C4: when term is found in body at offset pos, the snippet has a leading *)
(* marker iff pos - max_length/3 > 0 and a trailing marker iff             *)
(* min(len(body), pos + len(term) + 2*max_length/3) < len(body), and no    *)
(* other marker.                                                           *)
C4_Markers ==
  (SnippetReturned /\ ContainsCI(content, query))
    => LET pos == FirstOccurrence(content, query)
           window_end == Min(Len(content),
                             pos + Len(query) + ((2 * max_length) \div 3))
       IN MarkersAre(snippet.value,
                     pos - (max_length \div 3) > 0,
                     window_end < Len(content))

(* C5: when body does not contain term, the snippet is a prefix of body of *)
(* length <= max_length, followed by a marker iff len(body) > max_length;  *)
(* an empty body gives an empty snippet.                                   *)
C5_PrefixOfBody ==
  (SnippetReturned /\ ~ContainsCI(content, query))
    => /\ \E n \in 0..Min(max_length, Len(content)) :
            snippet.value = SubSeq(content, 1, n)
                            \o (IF Len(content) > max_length THEN Ellipsis ELSE <<>>)
       /\ content = <<>> => snippet.value = <<>>

(* C5, amended: when body does not contain term, the snippet is the first  *)
(* min(max_length, len(body)) bytes of body with leading and trailing      *)
(* whitespace trimmed, followed by a marker iff len(body) > max_length; an *)
(* empty body gives an empty snippet.                                      *)
C5_TrimmedPrefixOfBody ==
  (SnippetReturned /\ ~ContainsCI(content, query))
    => /\ snippet.value =
            trim(SubSeq(content, 1, Min(max_length, Len(content))))
            \o (IF Len(content) > max_length THEN Ellipsis ELSE <<>>)
       /\ content = <<>> => snippet.value = <<>>

\* A body without the term that starts with whitespace and is cut short.
C5_Witness ==
  /\ SnippetReturned
  /\ ~ContainsCI(content, query)
  /\ content # <<>> /\ IsWhitespace(content[1])
  /\ Len(content) > max_length
  /\ max_length > 1
  /\ Len(snippet.value) > 3

(* C6: when body contains term and len(body) < max_length, the snippet     *)
(* contains the term and has no marker, leading or trailing.               *)
C6_ShortBodyNoMarker ==
  (SnippetReturned /\ ContainsCI(content, query) /\ Len(content) < max_length)
    => /\ IsSubstring(MatchedSubstring(content, query), snippet.value)
       /\ NoMarker(snippet.value)

(* C6, amended: when body contains term and both len(body) and the length  *)
(* of the lowercased body are at most max_length/3, extract_snippet        *)
(* returns the whole body, whitespace-trimmed, with no marker.             *)
C6_ThirdOfBudgetNoMarker ==
  (/\ pc = "returned"
   /\ ContainsCI(content, query)
   /\ Len(content) <= max_length \div 3
   /\ Len(to_lowercase(content)) <= max_length \div 3)
    => /\ ~snippet.panicked
       /\ snippet.value = trim(content)
       /\ NoMarker(snippet.value)

\* A body of two bytes within a third of the budget, matched past offset 0.
C6_Witness ==
  /\ SnippetReturned
  /\ ContainsCI(content, query)
  /\ Len(content) = 2
  /\ Len(content) <= max_length \div 3
  /\ Len(to_lowercase(content)) <= max_length \div 3
  /\ FirstOccurrence(content, query) > 0

----------------------------------------------------------------------------
(* The index store and the command line.                                   *)
(*                                                                         *)
(* The store is the docs table joined with docs_fts.  Whether a row        *)
(* satisfies `docs_fts MATCH ?` and what bm25 gives it are the engine's    *)
(* business: every row carries both as data.  store.failure is what is     *)
(* wrong with the store or the query, if anything.                         *)

NL == "0A"

\* Row i of docs has the path PathOf[i]; paths are one byte each ("w".."z")
\* and occur in no other field.
PathBytes == <<"77", "78", "79", "7A">>

PathOf(i) == << PathBytes[i] >>

\* Categories 'c' and 'd'.
Categories == { <<"63">>, <<"64">> }

\* Every title is "T\nt": a field with a line break in it.
Title == <<"54", NL, "74">>

\* Bodies: "a\na", and KELVIN SIGN followed by 'a'.
Bodies == { <<"61", NL, "61">>, <<"E2", "84", "AA", "61">> }

\* bm25 scores.
Ranks == {-2, -1}

\* Snippet budgets on the command line.
Budgets == {0, 3}

Docs ==
  [path : {<<>>}, category : Categories, title : {Title}, content : Bodies,
   rank : Ranks, matches : BOOLEAN]

RECURSIVE StoresUpTo(_)
StoresUpTo(n) ==
  IF n = 0 THEN { <<>> }
  ELSE LET fewer == StoresUpTo(n - 1)
       IN fewer \cup
          { Append(ds, [d EXCEPT !.path = PathOf(Len(ds) + 1)]) :
              ds \in { x \in fewer : Len(x) = n - 1 }, d \in Docs }

Failures == {"none", "missing", "unopenable", "syntax"}

Init ==
  /\ store \in [failure : Failures, docs : StoresUpTo(MaxDocs)]
  /\ store.failure \in {"missing", "unopenable"} => store.docs = <<>>
  /\ args \in [query : { <<"61">> },
               limit : 0..MaxLimit,
               max_snippet : Budgets,
               format : {"Json", "Jsonl", "Text"},
               category : { <<>> } \cup { <<c>> : c \in Categories }]
  /\ stmt = "none"
  /\ rows = <<>>
  /\ results = <<>>
  /\ stdout = <<>>
  /\ exit_code = -1
  /\ pc = "start"
  /\ content = <<>>
  /\ query = <<>>
  /\ max_length = 0
  /\ snippet = NoCall

----------------------------------------------------------------------------
(* Searcher::search and Searcher::search_category.                         *)

\* WHERE docs_fts MATCH ?
SearchSelects(d) == d.matches

\* The category predicate left out of the WHERE clause.
SearchCategorySelects_NoFilter(d, category) == d.matches

\* WHERE docs_fts MATCH ? AND d.category = ?
SearchCategorySelects(d, category) == d.matches /\ d.category = category

\* ORDER BY rank LIMIT ?: the selected rows of docs in every order the engine
\* may return them: ascending rank, rows of equal rank in either order, cut
\* after limit rows.  sel is the set of positions of the selected rows.
Query(docs, sel, limit) ==
  LET n == Cardinality(sel)
      orders == { f \in [1..n -> sel] :
                    /\ \A i, j \in 1..n : i # j => f[i] # f[j]
                    /\ \A i, j \in 1..n :
                         i < j => docs[f[i]].rank <= docs[f[j]].rank }
  IN { [i \in 1..Min(limit, n) |-> docs[f[i]]] : f \in orders }

\* The closure of results.into_iter().map(..): one SearchResult of one row.
ToSearchResult(row, q, max_snippet) ==
  [path |-> row.path, category |-> row.category, title |-> row.title,
   snippet |-> extract_snippet(row.content, q, max_snippet).value,
   rank |-> row.rank]

\* The rows mapped last to first.
MapRows_Reversed(rs, q, max_snippet) ==
  [i \in 1..Len(rs) |-> ToSearchResult(rs[Len(rs) + 1 - i], q, max_snippet)]

\* results.into_iter().map(..).collect(): the rows in order.
MapRows(rs, q, max_snippet) ==
  [i \in 1..Len(rs) |-> ToSearchResult(rs[i], q, max_snippet)]

\* Some row's extract_snippet panics, which unwinds out of main.
MapPanics(rs, q, max_snippet) ==
  \E i \in 1..Len(rs) : extract_snippet(rs[i].content, q, max_snippet).panicked

----------------------------------------------------------------------------
(* format_results.  The output is a sequence of pieces: a byte of a field  *)
(* (two hex digits), a line break (NL) or a piece of the formatter's own   *)
(* text.                                                                   *)

RECURSIVE Join(_, _)
Join(ss, sep) ==
  IF ss = <<>> THEN <<>>
  ELSE IF Len(ss) = 1 THEN ss[1]
  ELSE ss[1] \o sep \o Join(Tail(ss), sep)

\* No escaping: the bytes as they are.
Escape_None(s) == s

\* serde_json's escaping of a string's bytes.
RECURSIVE Escape(_)
Escape(s) ==
  IF s = <<>> THEN <<>>
  ELSE (CASE Head(s) = NL -> <<"5C", "6E">>
          [] Head(s) = "22" -> <<"5C", "22">>
          [] Head(s) = "5C" -> <<"5C", "5C">>
          [] OTHER -> <<Head(s)>>) \o Escape(Tail(s))

JsonString(s) == <<"22">> \o Escape(s) \o <<"22">>

\* An f64 score as serde_json prints it.
JsonNumber(r) == IF r = -2 THEN <<"-2.0">> ELSE <<"-1.0">>

EmptyEncoding == <<"{\"results\":[],", "\"count\":", "0", "}">>

NoResultsText == <<"No results found.">>

\* json!({"p":..,"c":..,"t":..,"s":..,"r":..}).to_string(): keys sorted.
JsonlRecord(r) ==
  <<"{", "\"c\":">> \o JsonString(r.category)
  \o <<",\"p\":">> \o JsonString(r.path)
  \o <<",\"r\":">> \o JsonNumber(r.rank)
  \o <<",\"s\":">> \o JsonString(r.snippet)
  \o <<",\"t\":">> \o JsonString(r.title)
  \o <<"}">>

JsonlOut(rs) == Join([i \in 1..Len(rs) |-> JsonlRecord(rs[i])], <<NL>>)

\* One element of "results" in to_string_pretty.
PrettyRecord(r) ==
  <<"    {", NL, "      \"category\": ">> \o JsonString(r.category)
  \o <<",", NL, "      \"path\": ">> \o JsonString(r.path)
  \o <<",", NL, "      \"rank\": ">> \o JsonNumber(r.rank)
  \o <<",", NL, "      \"snippet\": ">> \o JsonString(r.snippet)
  \o <<",", NL, "      \"title\": ">> \o JsonString(r.title)
  \o <<NL, "    }">>

JsonOut(rs, q) ==
  <<"{", NL, "  ", "\"count\":", " ", ToString(Len(rs)), ",", NL,
    "  \"query\": ">> \o JsonString(q)
  \o <<",", NL, "  \"results\": [", NL>>
  \o Join([i \in 1..Len(rs) |-> PrettyRecord(rs[i])], <<",", NL>>)
  \o <<NL, "  ]", NL, "}">>

\* The three pushes of one entry of the text listing.
TextEntry(i, r) ==
  << <<ToString(i), ". [">> \o r.category \o <<"] ">> \o r.title,
     <<"   Path: ">> \o r.path,
     <<"   ">> \o r.snippet \o <<NL>> >>

TextOut(rs, q) ==
  Join(<< <<"Found ", ToString(Len(rs)), " results for '">> \o q \o <<"':", NL>> >>
       \o Concat([i \in 1..Len(rs) |-> TextEntry(i, rs[i])]),
       <<NL>>)

format_results(rs, q, format) ==
  IF rs = <<>>
  THEN (IF format \in {"Json", "Jsonl"} THEN EmptyEncoding ELSE NoResultsText)
  ELSE CASE format = "Jsonl" -> JsonlOut(rs)
         [] format = "Json" -> JsonOut(rs, q)
         [] format = "Text" -> TextOut(rs, q)

----------------------------------------------------------------------------
(* main.                                                                   *)

\* An Err returned from main: message on stderr, exit status 1.
Fail ==
  /\ pc' = "exit"
  /\ exit_code' = 1
  /\ UNCHANGED <<stmt, rows, results, stdout>>

\* if !args.db_path.exists() { bail!(..) }
CheckDbExists ==
  /\ pc = "start"
  /\ IF store.failure = "missing" THEN Fail
     ELSE /\ pc' = "open"
          /\ UNCHANGED <<stmt, rows, results, stdout, exit_code>>
  /\ UNCHANGED <<content, query, max_length, snippet, store, args>>

\* Searcher::new(&args.db_path)?
SearcherNew ==
  /\ pc = "open"
  /\ IF store.failure = "unopenable" THEN Fail
     ELSE /\ pc' = "search"
          /\ UNCHANGED <<stmt, rows, results, stdout, exit_code>>
  /\ UNCHANGED <<content, query, max_length, snippet, store, args>>

\* The query has run and returned rs: map the rows, or unwind on a panic
\* (exit status 101, nothing on stdout).
Collect(rs) ==
  /\ rows' = rs
  /\ IF MapPanics(rs, args.query, args.max_snippet)
     THEN /\ pc' = "exit"
          /\ exit_code' = 101
          /\ UNCHANGED <<results, stdout>>
     ELSE /\ results' = MapRows(rs, args.query, args.max_snippet)
          /\ pc' = "format"
          /\ UNCHANGED <<stdout, exit_code>>

\* searcher.search(&args.query, args.limit, args.max_snippet)?
Search ==
  /\ pc = "search"
  /\ args.category = <<>>
  /\ IF store.failure = "syntax" THEN Fail
     ELSE /\ stmt' = "search"
          /\ \E rs \in Query(store.docs,
                             { i \in 1..Len(store.docs) :
                                 SearchSelects(store.docs[i]) },
                             args.limit) :
               Collect(rs)
  /\ UNCHANGED <<content, query, max_length, snippet, store, args>>

\* searcher.search_category(&args.query, category, args.limit, args.max_snippet)?
SearchCategory ==
  /\ pc = "search"
  /\ args.category # <<>>
  /\ IF store.failure = "syntax" THEN Fail
     ELSE /\ stmt' = "search_category"
          /\ \E rs \in Query(store.docs,
                             { i \in 1..Len(store.docs) :
                                 SearchCategorySelects(store.docs[i],
                                                       args.category[1]) },
                             args.limit) :
               Collect(rs)
  /\ UNCHANGED <<content, query, max_length, snippet, store, args>>

\* let output = format_results(..)?; println!("{}", output); Ok(())
FormatAndPrint ==
  /\ pc = "format"
  /\ stdout' = Append(stdout,
                      format_results(results, args.query, args.format) \o <<NL>>)
  /\ pc' = "exit"
  /\ exit_code' = 0
  /\ UNCHANGED <<content, query, max_length, snippet, store, args, stmt,
                 rows, results>>

Next ==
  \/ CheckDbExists
  \/ SearcherNew
  \/ Search
  \/ SearchCategory
  \/ FormatAndPrint

Spec == Init /\ [][Next]_vars

----------------------------------------------------------------------------
(* Vocabulary of the properties of the invocation.                         *)

\* search or search_category has returned Ok(results).
Collected == stmt # "none" /\ pc \in {"format", "exit"} /\ exit_code \in {-1, 0}

\* main has printed and returned Ok(()).
Printed == pc = "exit" /\ exit_code = 0

\* What format_results returned: the line println! wrote, less its line break.
Output == SubSeq(stdout[1], 1, Len(stdout[1]) - 1)

RECURSIVE SplitLines(_)
SplitLines(out) ==
  IF \A i \in 1..Len(out) : out[i] # NL THEN << out >>
  ELSE LET i == CHOOSE i \in 1..Len(out) :
                  out[i] = NL /\ \A j \in 1..(i - 1) : out[j] # NL
       IN << SubSeq(out, 1, i - 1) >> \o SplitLines(Tail_n(out, i))

\* The pieces of out that satisfy in, in order.
RECURSIVE Pieces(_, _)
Pieces(out, in) ==
  IF out = <<>> THEN <<>>
  ELSE (IF Head(out) \in in THEN <<Head(out)>> ELSE <<>>) \o Pieces(Tail(out), in)

\* The pieces of out that come right before a piece p, in order.
RECURSIVE Before(_, _)
Before(out, p) ==
  IF Len(out) < 2 THEN <<>>
  ELSE (IF out[2] = p THEN <<out[1]>> ELSE <<>>) \o Before(Tail(out), p)

\* The number an output gives after its "count" key.
ReportedCount(out) ==
  LET i == CHOOSE i \in 1..Len(out) : out[i] = "\"count\":"
  IN IF out[i + 1] = " " THEN out[i + 2] ELSE out[i + 1]

PathByteSet == { PathBytes[i] : i \in 1..Len(PathBytes) }

\* Positions in store.docs of the rows a query for category may return.
Eligible(category) ==
  { i \in 1..Len(store.docs) :
      store.docs[i].matches /\ store.docs[i].category = category }

----------------------------------------------------------------------------
(* C7: for k results, Jsonl output is exactly k lines, one record each,    *)
(* when k > 0 and {"results":[],"count":0} when k = 0; Json output reports *)
(* count == k for every k >= 0.                                            *)
C7_CountsAgree ==
  Printed =>
    LET k == Len(results)
        lines == SplitLines(Output)
    IN /\ k <= args.limit
       /\ (args.format = "Jsonl" /\ k = 0) =>
            Output = <<"{\"results\":[],", "\"count\":", "0", "}">>
       /\ (args.format = "Jsonl" /\ k > 0) =>
            /\ Len(lines) = k
            /\ \A i \in 1..k :
                 /\ Head(lines[i]) = "{"
                 /\ lines[i][Len(lines[i])] = "}"
                 /\ Pieces(lines[i], PathByteSet) = results[i].path
       /\ args.format = "Json" => ReportedCount(Output) = ToString(k)

\* Two results printed as Jsonl, one with a line break inside its snippet.
C7_Witness ==
  /\ Printed
  /\ args.format = "Jsonl"
  /\ Len(results) = 2
  /\ \E i \in 1..2 : IsSubstring(<<NL>>, results[i].snippet)

(* C8: there is exactly one SearchResult per row the store returned, in    *)
(* the store's order, and every format prints the results in that order:   *)
(* nothing is reordered, dropped or duplicated.                            *)
C8_OrderPreserved ==
  /\ Collected =>
       /\ Len(results) = Len(rows)
       /\ \A i \in 1..Len(rows) :
            /\ results[i].path = rows[i].path
            /\ results[i].category = rows[i].category
            /\ results[i].title = rows[i].title
            /\ results[i].rank = rows[i].rank
  /\ (Printed /\ rows # <<>>) =>
       /\ Pieces(Output, PathByteSet) = [i \in 1..Len(rows) |-> rows[i].path[1]]
       /\ args.format = "Text" =>
            Before(Output, ". [") = [i \in 1..Len(rows) |-> ToString(i)]

\* Two rows returned in an order that is not their order in the table,
\* printed as text.
C8_Witness ==
  /\ Printed
  /\ args.format = "Text"
  /\ Len(rows) = 2
  /\ rows[1].path = PathOf(2)
  /\ rows[2].path = PathOf(1)

(* C9: search_category returns only rows of the given category, and they   *)
(* are the best-ranked matching rows of that category, at most limit of    *)
(* them; main calls search_category iff a category is given.               *)
C9_CategoryFilter ==
  /\ stmt # "none" => (stmt = "search_category" <=> args.category # <<>>)
  /\ (Collected /\ args.category # <<>>) =>
       LET c == args.category[1]
           returned == { i \in Eligible(c) :
                           \E j \in 1..Len(results) :
                              results[j].path = store.docs[i].path }
       IN /\ \A j \in 1..Len(results) : results[j].category = c
          /\ Cardinality(returned) = Len(results)
          /\ Len(results) = Min(args.limit, Cardinality(Eligible(c)))
          /\ \A i \in returned : \A e \in Eligible(c) \ returned :
               store.docs[i].rank <= store.docs[e].rank
          /\ \A i, j \in 1..Len(results) :
               i < j => results[i].rank <= results[j].rank

\* A category query that returns a row although a matching row of another
\* category ranks better.
C9_Witness ==
  /\ Collected
  /\ args.category # <<>>
  /\ Len(results) = 1
  /\ \E i \in 1..Len(store.docs) :
       /\ store.docs[i].matches
       /\ store.docs[i].category # args.category[1]
       /\ store.docs[i].rank < results[1].rank

(* C10: the exit status is non-zero exactly when the store is missing or   *)
(* unopenable or the query is rejected, and then nothing was printed;      *)
(* otherwise the output was printed exactly once, after the query and the  *)
(* snippet extraction, and the exit status is zero.                        *)
C10_ExitStatus ==
  pc = "exit" =>
    /\ exit_code # 0 <=> store.failure # "none"
    /\ exit_code # 0 => stdout = <<>>
    /\ exit_code = 0 => (Len(stdout) = 1 /\ stmt # "none"
                         /\ Len(results) = Len(rows))

====
